---- MODULE Spec2Model ----
(***************************************************************************)
(* Model of the synthetic customer generator and its validator             *)
(* (data_generation/customer_generator.py, data_generation/config.py).     *)
(*                                                                         *)
(* Conventions                                                             *)
(*  - An allocation weight w is held as the integer 100 * w (a percent).   *)
(*    For the configured weights int(n * w) equals the truncated integer   *)
(*    quotient (n * pct) / 100 for every n in -50 .. 2000000.              *)
(*  - Strings that the code formats or matches against a pattern are       *)
(*    sequences of one-character strings; other strings are atoms.         *)
(*  - A nullable field holds <<>> for None/NaN and <<v>> for the value v.   *)
(*  - A calendar date is a day number; datetime.now() reads `today`.       *)
(*  - numpy's and Faker's generators are process-wide streams.  Each is    *)
(*    abstracted by a linear congruential stream: seeding fixes the state, *)
(*    every draw advances it.                                              *)
(***************************************************************************)
EXTENDS Integers, Sequences, FiniteSets, TLC

VARIABLES
    today,                \* the calendar day datetime.now() falls on
    weights,              \* the segment table the allocation iterates (SEGMENTS)
    np_state,             \* numpy's global random state (np.random)
    faker_state,          \* Faker's shared random state (Faker.seed)
    pc,                   \* per invocation: position in generate / validate
    n,                    \* per invocation: argument n
    seed,                 \* per invocation: argument seed
    segment_counts,       \* per invocation: local segment_counts (in segment order)
    segment_assignments,  \* per invocation: local segment_assignments
    customers,            \* per invocation: local list customers
    df,                   \* per invocation: the DataFrame returned / validated
    report,               \* per invocation: what validate_customer_data returned
    cli,                  \* the generate-customers command: position, output, exit status
    s3                    \* the call upload_to_s3: position, attempts, outcome

vars == <<today, weights, np_state, faker_state, pc, n, seed, segment_counts,
          segment_assignments, customers, df, report, cli, s3>>

(***************************************************************************)
(* Bounds of the model                                                     *)
(***************************************************************************)
MaxN == 10        \* largest population size of a sequential call
MaxSeed == 1      \* seeds are 0 .. MaxSeed
MaxDay == 1       \* the clock runs over the days 0 .. MaxDay
MaxSeqN == 3      \* largest population size of two calls made in sequence
MaxParN == 2      \* largest population size of a parallel call
MaxAllocN == 7    \* largest n handed to the allocation step alone
MaxSegments == 3  \* longest weight sequence handed to the allocation step alone
MaxRows == 2      \* most rows of a frame handed to the validator alone
MaxInject == 2    \* most duplicate rows appended to a generated frame
MaxInjectN == 5   \* largest population size of a frame that gets duplicates
MaxLargeExtra == 2 \* large populations are 100 .. 100 + MaxLargeExtra
MaxCmdRows == 1   \* most rows of a frame handed to the command's validation step
MaxDistRows == 5  \* most rows of a frame made to test the segment distribution
MaxAltered == 2   \* most cells of a row overwritten before validation
MaxIgnoreRows == 1 \* most rows of a frame whose cells are overwritten

Calls == {1, 2}
Seeds == 0..MaxSeed
NValues == {0 - 1} \cup (0..MaxN)

(***************************************************************************)
(* config.py                                                               *)
(***************************************************************************)
SEGMENTS ==
    << [name |-> "High-Value Travelers", pct |-> 15],
       [name |-> "Stable Mid-Spenders",  pct |-> 40],
       [name |-> "Budget-Conscious",     pct |-> 25],
       [name |-> "Declining",            pct |-> 10],
       [name |-> "New & Growing",        pct |-> 10] >>

EMPLOYMENT_STATUSES == <<"Employed", "Self-Employed", "Retired", "Unemployed">>

US_STATES ==
    << "AL", "AK", "AZ", "AR", "CA", "CO", "CT", "DE", "FL", "GA",
       "HI", "ID", "IL", "IN", "IA", "KS", "KY", "LA", "ME", "MD",
       "MA", "MI", "MN", "MS", "MO", "MT", "NE", "NV", "NH", "NJ",
       "NM", "NY", "NC", "ND", "OH", "OK", "OR", "PA", "RI", "SC",
       "SD", "TN", "TX", "UT", "VT", "VA", "WA", "WV", "WI", "WY", "DC" >>

MIN_CREDIT_LIMIT == 5000
MAX_CREDIT_LIMIT == 50000
CREDIT_LIMIT_STEP == 1000
MIN_AGE == 22
MAX_AGE == 75
ACCOUNT_OPEN_MIN_YEARS_AGO == 5
ACCOUNT_OPEN_MAX_YEARS_AGO == 2
GRADUAL_DECLINE_PERCENTAGE == 70   \* 0.70, as a percent
PREMIUM_PERCENTAGE == 30           \* the literal 0.30, as a percent

(***************************************************************************)
(* Nullable values                                                         *)
(***************************************************************************)
None == <<>>
Some(v) == <<v>>
IsNull(x) == x = None
Val(x) == x[1]

(***************************************************************************)
(* Text                                                                    *)
(***************************************************************************)
Digits == <<"0", "1", "2", "3", "4", "5", "6", "7", "8", "9">>
DigitSet == {Digits[k] : k \in 1..10}

\* str(k) for a natural number k: its decimal digits
RECURSIVE Str(_)
Str(k) == IF k < 10 THEN <<Digits[k + 1]>>
          ELSE Str(k \div 10) \o <<Digits[(k % 10) + 1]>>

\* s.zfill(width): pads on the left with "0" up to width, never truncates
RECURSIVE ZFill(_, _)
ZFill(s, width) == IF Len(s) >= width THEN s ELSE ZFill(<<"0">> \o s, width)

\* str.lower() on the letters the name source can produce
Lower(ch) ==
    CASE ch = "A" -> "a" [] ch = "B" -> "b" [] ch = "D" -> "d"
      [] ch = "L" -> "l" [] ch = "O" -> "o" [] ch = "R" -> "r"
      [] OTHER -> ch
LowerStr(s) == [k \in 1..Len(s) |-> Lower(s[k])]

\* Data of the name source (Faker providers), a small sample of it
FIRST_NAMES == << <<"A","n","n">>, <<"B","o">>, <<"D","e","e">> >>
LAST_NAMES == << <<"L","e","e">>, <<"O","'","R","y">>, <<"R","o","y">> >>
FREE_EMAIL_DOMAINS ==
    << <<"g","m","a","i","l",".","c","o","m">>,
       <<"y","a","h","o","o",".","c","o","m">>,
       <<"h","o","t","m","a","i","l",".","c","o","m">> >>
CITIES == <<"Lake Ann", "Port Roy", "New Dee">>

(***************************************************************************)
(* The random streams.  A stream state is a number in 0 .. 65536; a draw   *)
(* advances the state and derives its value from the new state.            *)
(***************************************************************************)
\* np.random.seed(seed) / Faker.seed(seed): the state depends on seed alone
SeedState(s) == (13466 * s + 52212) % 65537

NextState(st) == (16060 * st + 21190) % 65537

\* a uniform integer draw from 0 .. k-1: [v |-> value, st |-> new state]
Draw(st, k) == [v |-> NextState(st) % k, st |-> NextState(st)]

\* np.random.randint(low, high): low inclusive, high exclusive
RandInt(st, low, high) ==
    LET d == Draw(st, high - low) IN [v |-> low + d.v, st |-> d.st]

\* np.random.random() in [0, 1), as the percent it falls in (0 .. 99)
RandomPct(st) == Draw(st, 100)

\* np.random.choice(list) / a Faker provider picking an element
Choice(st, list) ==
    LET d == Draw(st, Len(list)) IN [v |-> list[d.v + 1], st |-> d.st]

(***************************************************************************)
(* generate_customers: the allocation step                                 *)
(***************************************************************************)
\* a variant of IntTrunc: round(x) in place of int(x)
IntRounded(num) == (num + 50) \div 100

\* int(x) of the float x = num / 100: truncation toward zero
IntTrunc(num) == IF num >= 0 THEN num \div 100 ELSE 0 - ((0 - num) \div 100)

\* total_assigned after the first k segments have been visited
RECURSIVE TotalAssigned(_, _, _)
TotalAssigned(nn, w, k) ==
    IF k = 0 THEN 0
    ELSE TotalAssigned(nn, w, k - 1)
         + (IF k = Len(w) THEN 0 ELSE IntTrunc(nn * w[k].pct))
\* a variant of LastCount: the last segment truncated like the others
LastCountTruncated(nn, w) == IntTrunc(nn * w[Len(w)].pct)

LastCount(nn, w) == nn - TotalAssigned(nn, w, Len(w) - 1)

\* segment_counts, in the iteration order of the segment table
SegmentCounts(nn, w) ==
    [k \in 1..Len(w) |->
        IF k = Len(w) THEN LastCount(nn, w) ELSE IntTrunc(nn * w[k].pct)]

\* [x] * count: empty for count <= 0
Repeat(x, count) == IF count <= 0 THEN <<>> ELSE [k \in 1..count |-> x]

\* segment_assignments before the shuffle: each name repeated count times
RECURSIVE Assignments(_, _, _)
Assignments(w, counts, k) ==
    IF k = 0 THEN <<>>
    ELSE Assignments(w, counts, k - 1) \o Repeat(w[k].name, counts[k])

(***************************************************************************)
(* np.random.shuffle: Fisher-Yates from the last position down, in place   *)
(***************************************************************************)
\* a variant of Swap: position i takes x[j], position j keeps its value
Overwrite(x, i, j) == [x EXCEPT ![i] = x[j]]

Swap(x, i, j) == [x EXCEPT ![i] = x[j], ![j] = x[i]]

\* the visit of position k: [v |-> list, st |-> stream state] before and after
ShuffleStep(s, k) ==
    LET d == Draw(s.st, k)
    IN  [v |-> Swap(s.v, k, d.v + 1), st |-> d.st]

\* the visits of the positions hi, hi-1, .., lo of the list in this order,
\* the upper half of them first
RECURSIVE ShuffleRange(_, _, _)
ShuffleRange(s, hi, lo) ==
    IF hi < lo \/ hi > Len(s.v) THEN s
    ELSE IF hi = lo THEN ShuffleStep(s, hi)
    ELSE ShuffleRange(ShuffleRange(s, hi, (hi + lo) \div 2 + 1), (hi + lo) \div 2, lo)

\* positions n, n-1, .., 2 are visited
Shuffle(x, st) == ShuffleRange([v |-> x, st |-> st], Len(x), 2)

(***************************************************************************)
(* generate_customers: one pass of the record loop                         *)
(***************************************************************************)
\* a variant of CustomerId: the loop index itself, not i + 1
CustomerIdZeroBased(i) == <<"C", "U", "S", "T">> \o ZFill(Str(i), 8)

\* f"CUST{str(i + 1).zfill(8)}" for the 0-based loop index i
CustomerId(i) == <<"C", "U", "S", "T">> \o ZFill(Str(i + 1), 8)
\* a variant of Email: the "@" left out of the format string
EmailWithoutAt(first_name, last_name, domain) ==
    LowerStr(first_name) \o <<".">> \o LowerStr(last_name) \o domain

Email(first_name, last_name, domain) ==
    LowerStr(first_name) \o <<".">> \o LowerStr(last_name) \o <<"@">> \o domain

AgeDraw(st) == RandInt(st, MIN_AGE, MAX_AGE + 1)

\* a variant of CardDraw: the premium draw made whatever the segment
CardDrawAnySegment(segment, st) ==
    LET r == RandomPct(st)
    IN  [v |-> IF r.v < PREMIUM_PERCENTAGE THEN "Premium" ELSE "Standard",
         st |-> r.st]

\* card type and the stream state after deciding it
CardDraw(segment, st) ==
    IF segment = "High-Value Travelers"
    THEN LET r == RandomPct(st)
         IN  [v |-> IF r.v < PREMIUM_PERCENTAGE THEN "Premium" ELSE "Standard",
              st |-> r.st]
    ELSE [v |-> "Standard", st |-> st]
\* a variant of CreditLimitDraw: any integer of the range, not a step of it
CreditLimitDrawUnquantized(st) ==
    LET d == RandInt(st, MIN_CREDIT_LIMIT, MAX_CREDIT_LIMIT + 1)
    IN  [v |-> d.v, st |-> d.st]

CreditLimitDraw(st) ==
    LET num_steps == (MAX_CREDIT_LIMIT - MIN_CREDIT_LIMIT) \div CREDIT_LIMIT_STEP + 1
        d == RandInt(st, 0, num_steps)
    IN  [v |-> MIN_CREDIT_LIMIT + d.v * CREDIT_LIMIT_STEP, st |-> d.st]

DaysAgoDraw(st) ==
    LET days_ago_min == ACCOUNT_OPEN_MAX_YEARS_AGO * 365
        days_ago_max == ACCOUNT_OPEN_MIN_YEARS_AGO * 365
    IN  RandInt(st, days_ago_min, days_ago_max + 1)

\* a variant of AccountOpenDate: the days added to the date
AccountOpenDateAhead(now, days_ago) == now + days_ago

\* (datetime.now() - timedelta(days = days_ago)).date()
AccountOpenDate(now, days_ago) == now - days_ago
\* a variant of DeclineDraw: the decline type drawn whatever the segment
DeclineDrawAnySegment(segment, st) ==
    LET r == RandomPct(st)
    IN  [v |-> Some(IF r.v < GRADUAL_DECLINE_PERCENTAGE THEN "gradual" ELSE "sudden"),
         st |-> r.st]

DeclineDraw(segment, st) ==
    IF segment = "Declining"
    THEN LET r == RandomPct(st)
         IN  [v |-> Some(IF r.v < GRADUAL_DECLINE_PERCENTAGE THEN "gradual" ELSE "sudden"),
              st |-> r.st]
    ELSE [v |-> None, st |-> st]

\* The body of `for i in range(n)`: the record appended and both stream
\* states after its draws, taken in the code's order.
SynthesizeRecord(i, segment, nps, fks, now) ==
    LET first == Choice(fks, FIRST_NAMES)
        last == Choice(first.st, LAST_NAMES)
        domain == Choice(last.st, FREE_EMAIL_DOMAINS)
        age == AgeDraw(nps)
        state == Choice(age.st, US_STATES)
        city == Choice(domain.st, CITIES)
        employment == Choice(state.st, EMPLOYMENT_STATUSES)
        card == CardDraw(segment, employment.st)
        credit == CreditLimitDraw(card.st)
        days == DaysAgoDraw(credit.st)
        decline == DeclineDraw(segment, days.st)
    IN  [row |-> [customer_id |-> Some(CustomerId(i)),
                  first_name |-> Some(first.v),
                  last_name |-> Some(last.v),
                  email |-> Some(Email(first.v, last.v, domain.v)),
                  age |-> age.v,
                  state |-> Some(state.v),
                  city |-> city.v,
                  employment_status |-> employment.v,
                  card_type |-> Some(card.v),
                  credit_limit |-> Some(credit.v),
                  account_open_date |-> AccountOpenDate(now, days.v),
                  customer_segment |-> Some(segment),
                  decline_type |-> decline.v],
         nps |-> decline.st,
         fks |-> city.st]

\* pd.DataFrame(records): a list of no dicts gives a frame without columns
DataFrame(records) == [columns |-> records # <<>>, rows |-> records]

NoFrame == [columns |-> FALSE, rows |-> <<>>]
NoReport == [outcome |-> "none"]

(***************************************************************************)
(* validate_customer_data                                                  *)
(***************************************************************************)
required_fields == <<"customer_id", "email", "state", "card_type", "credit_limit",
                     "customer_segment", "first_name", "last_name">>

\* df[field].isnull().sum()
NullCount(rows, field) == Cardinality({k \in 1..Len(rows) : IsNull(rows[k][field])})

DuplicatedIdCount(rows) ==
    Cardinality({rows[k].customer_id : k \in
                    {k \in 1..Len(rows) :
                        \E j \in 1..(k - 1) : rows[j].customer_id = rows[k].customer_id}})

\* df["customer_id"].duplicated().sum(): rows whose identifier occurred in an
\* earlier row (two missing identifiers count as equal)
DuplicateCount(rows) ==
    Cardinality({k \in 1..Len(rows) :
                    \E j \in 1..(k - 1) : rows[j].customer_id = rows[k].customer_id})

\* re.match(r'^CUST\d{8}$', s): `$` also matches before one trailing newline
IdMatches(s) ==
    LET t == IF Len(s) = 13 /\ s[13] = "\n" THEN SubSeq(s, 1, 12) ELSE s
    IN  /\ Len(t) = 12
        /\ SubSeq(t, 1, 4) = <<"C", "U", "S", "T">>
        /\ \A k \in 5..12 : t[k] \in DigitSet

\* re.match(r'^[^@]+@[^@]+\.[^@]+$', s)
EmailMatches(s) ==
    \E a \in 2..Len(s) :
        /\ s[a] = "@"
        /\ \A k \in 1..Len(s) : k # a => s[k] # "@"
        /\ \E d \in (a + 2)..(Len(s) - 1) : s[d] = "."

InvalidIdCount(rows) ==
    Cardinality({k \in 1..Len(rows) :
                    IsNull(rows[k].customer_id) \/ ~IdMatches(Val(rows[k].customer_id))})

InvalidEmailCount(rows) ==
    Cardinality({k \in 1..Len(rows) :
                    ~IsNull(rows[k].email) /\ ~EmailMatches(Val(rows[k].email))})

InvalidCreditLimitRangeOnly(x) ==
    \/ IsNull(x)
    \/ Val(x) < MIN_CREDIT_LIMIT
    \/ Val(x) > MAX_CREDIT_LIMIT

\* a missing limit is NaN: both comparisons are false, NaN % step != 0 is true
InvalidCreditLimit(x) ==
    \/ IsNull(x)
    \/ Val(x) < MIN_CREDIT_LIMIT
    \/ Val(x) > MAX_CREDIT_LIMIT
    \/ Val(x) % CREDIT_LIMIT_STEP # 0

InvalidCreditLimitCount(rows) ==
    Cardinality({k \in 1..Len(rows) : InvalidCreditLimit(rows[k].credit_limit)})

IsDeclining(row) == row.customer_segment = Some("Declining")

NullDeclineCountAnySegment(rows) ==
    Cardinality({k \in 1..Len(rows) : IsNull(rows[k].decline_type)})

NullDeclineCount(rows) ==
    Cardinality({k \in 1..Len(rows) :
                    IsDeclining(rows[k]) /\ IsNull(rows[k].decline_type)})

\* a variant of InvalidDeclineCount: a decline_type that is neither of the two
\* configured values counts too
InvalidDeclineCountByValue(rows) ==
    Cardinality({k \in 1..Len(rows) :
                    /\ ~IsNull(rows[k].decline_type)
                    /\ \/ ~IsDeclining(rows[k])
                       \/ Val(rows[k].decline_type) \notin {"gradual", "sudden"}})

InvalidDeclineCount(rows) ==
    Cardinality({k \in 1..Len(rows) :
                    ~IsDeclining(rows[k]) /\ ~IsNull(rows[k].decline_type)})

Error(rule, field, count) == [rule |-> rule, field |-> field, count |-> count]

\* a variant of ErrorIf: an entry per offending row, not one per rule
ErrorPerRow(cond, rule, field, count) == [k \in 1..count |-> Error(rule, field, 1)]

\* if <cond>: errors.append(<message with count>)
ErrorIf(cond, rule, field, count) ==
    IF cond THEN <<Error(rule, field, count)>> ELSE <<>>

\* the null errors of the first k required fields, in their order
RECURSIVE NullErrors(_, _)
NullErrors(rows, k) ==
    IF k = 0 THEN <<>>
    ELSE NullErrors(rows, k - 1)
         \o ErrorIf(NullCount(rows, required_fields[k]) > 0, "null",
                    required_fields[k], NullCount(rows, required_fields[k]))

\* a variant of Deviates: any difference from the target counts
DeviatesAtAll(count, total, pct) == 100 * count # pct * total

\* abs(actual_pct - expected_pct) > 0.05 for count of total rows and the weight
\* pct / 100.  In double arithmetic the test agrees with the exact one except
\* when the exact deviation is 0.05: then it is true for 0.15 from above and
\* for 0.40 from below (checked for every total below 3000).
Deviates(count, total, pct) ==
    LET above == 100 * count - pct * total
        dev == IF above >= 0 THEN above ELSE 0 - above
    IN  IF count = 0
        THEN pct > 5        \* segment_distribution.get(name, 0): abs(0 - pct / 100)
        ELSE \/ dev > 5 * total
             \/ /\ dev = 5 * total
                /\ \/ pct = 15 /\ above > 0
                   \/ pct = 40 /\ above < 0

SegmentCount(rows, name) ==
    Cardinality({k \in 1..Len(rows) : rows[k].customer_segment = Some(name)})

\* the warnings of the first k configured segments, in their order
RECURSIVE SegmentWarnings(_, _)
SegmentWarnings(rows, k) ==
    IF k = 0 THEN <<>>
    ELSE SegmentWarnings(rows, k - 1)
         \o (IF Deviates(SegmentCount(rows, SEGMENTS[k].name),
                         Len(rows) - NullCount(rows, "customer_segment"),
                         SEGMENTS[k].pct)
             THEN <<SEGMENTS[k].name>> ELSE <<>>)

\* the errors list when the function runs to its return statement
Errors(rows) ==
    NullErrors(rows, Len(required_fields))
    \o ErrorIf(DuplicateCount(rows) > 0, "duplicate", "customer_id", DuplicateCount(rows))
    \o ErrorIf(InvalidIdCount(rows) > 0, "id_format", "customer_id", InvalidIdCount(rows))
    \o ErrorIf(InvalidEmailCount(rows) > 0, "email_format", "email", InvalidEmailCount(rows))
    \o ErrorIf(InvalidCreditLimitCount(rows) > 0, "credit_limit", "credit_limit",
               InvalidCreditLimitCount(rows))
    \o ErrorIf(NullDeclineCount(rows) > 0, "declining_without_decline_type",
               "decline_type", NullDeclineCount(rows))
    \o ErrorIf(InvalidDeclineCount(rows) > 0, "non_declining_with_decline_type",
               "decline_type", InvalidDeclineCount(rows))

Returned(rows) ==
    [outcome |-> "returned",
     is_valid |-> Len(Errors(rows)) = 0,
     errors |-> Errors(rows),
     warnings |-> SegmentWarnings(rows, Len(SEGMENTS)),
     total_customers |-> Len(rows),
     unique_customer_ids |->
         Cardinality({rows[k].customer_id : k \in 1..Len(rows)} \ {None})]

Raised(exception) == [outcome |-> "raised", exception |-> exception]

\* What a call validate_customer_data(frame) can end in.
\*  - A frame without columns: df["customer_id"] raises KeyError.
\*  - A missing customer_id: str.match gives NaN for it in an object column and
\*    `~` raises TypeError; in a column of the string dtype it gives False and
\*    the row counts as an invalid identifier.  Which dtype the column has
\*    depends on the pandas in use.
ValidateOutcomes(frame) ==
    IF ~frame.columns THEN {Raised("KeyError")}
    ELSE IF NullCount(frame.rows, "customer_id") > 0
         THEN {Raised("TypeError"), Returned(frame.rows)}
         ELSE {Returned(frame.rows)}

\* The frame df after the call: the function only reads df, every selection
\* df[...] it makes is a new frame, and it assigns to no column of df.
InputAfterValidateDeduplicated(frame) ==
    [frame EXCEPT !.rows = IF DuplicateCount(@) > 0 THEN SubSeq(@, 1, Len(@) - 1) ELSE @]
InputAfterValidate(frame) == frame

\* validate_customer_data(df) on the frame the invocation c returned
Validate(c) ==
    /\ pc[c] = "returned"
    /\ \E r \in ValidateOutcomes(df[c]) :
          /\ report' = [report EXCEPT ![c] = r]
          /\ pc' = [pc EXCEPT ![c] = IF r.outcome = "raised" THEN "raised" ELSE "validated"]
    /\ df' = [df EXCEPT ![c] = InputAfterValidate(@)]
    /\ UNCHANGED <<today, weights, np_state, faker_state, n, seed, segment_counts,
                   segment_assignments, customers, cli, s3>>

\* a second call validate_customer_data(df) on the same frame, made by the
\* same process after the first call returned (so with the same pandas)
Revalidate(c) ==
    /\ pc[c] = "validated"
    /\ \E r \in ValidateOutcomes(df[c]) :
          /\ r.outcome = report[c].outcome
          /\ report' = [report EXCEPT ![c] = r]
    /\ pc' = [pc EXCEPT ![c] = "revalidated"]
    /\ df' = [df EXCEPT ![c] = InputAfterValidate(@)]
    /\ UNCHANGED <<today, weights, np_state, faker_state, n, seed, segment_counts,
                   segment_assignments, customers, cli, s3>>

\* pd.concat([df, df.head(1)], ignore_index=True), for any row of the frame in
\* place of the first: a copy of the row is appended
InjectDuplicate(c) ==
    /\ pc[c] = "returned"
    /\ Len(df[c].rows) < n[c] + MaxInject
    /\ \E k \in 1..Len(df[c].rows) :
          df' = [df EXCEPT ![c].rows = Append(@, @[k])]
    /\ UNCHANGED <<today, weights, np_state, faker_state, pc, n, seed, segment_counts,
                   segment_assignments, customers, report, cli, s3>>

\* df.loc[0, field] = value on the frame of the invocation c, as the tests
\* do before they validate
SetCell(c, field, value) ==
    /\ pc[c] = "returned"
    /\ Len(df[c].rows) > 0
    /\ df' = [df EXCEPT ![c].rows[1][field] = value]
    /\ UNCHANGED <<today, weights, np_state, faker_state, pc, n, seed, segment_counts,
                   segment_assignments, customers, report, cli, s3>>

(***************************************************************************)
(* Actions of generate_customers, for the invocation c                     *)
(***************************************************************************)
\* the call generate_customers(nn, s) is made
Call(c, nn, s) ==
    /\ pc[c] = "idle"
    /\ pc' = [pc EXCEPT ![c] = "seed"]
    /\ n' = [n EXCEPT ![c] = nn]
    /\ seed' = [seed EXCEPT ![c] = s]
    /\ UNCHANGED <<today, weights, np_state, faker_state, segment_counts,
                   segment_assignments, customers, df, report, cli, s3>>

\* a variant of SeedStreams: Faker.seed(seed) left out
SeedNumpyOnly(c) ==
    /\ pc[c] = "seed"
    /\ np_state' = SeedState(seed[c])
    /\ customers' = [customers EXCEPT ![c] = <<>>]
    /\ pc' = [pc EXCEPT ![c] = "allocate"]
    /\ UNCHANGED <<today, weights, faker_state, n, seed, segment_counts,
                   segment_assignments, df, report, cli, s3>>

\* np.random.seed(seed); fake = Faker(); Faker.seed(seed); customers = []
SeedStreams(c) ==
    /\ pc[c] = "seed"
    /\ np_state' = SeedState(seed[c])
    /\ faker_state' = SeedState(seed[c])
    /\ customers' = [customers EXCEPT ![c] = <<>>]
    /\ pc' = [pc EXCEPT ![c] = "allocate"]
    /\ UNCHANGED <<today, weights, n, seed, segment_counts, segment_assignments,
                   df, report, cli, s3>>

\* the two loops that fill segment_counts and segment_assignments
Allocate(c) ==
    /\ pc[c] = "allocate"
    /\ segment_counts' = [segment_counts EXCEPT ![c] = SegmentCounts(n[c], weights)]
    /\ segment_assignments' =
           [segment_assignments EXCEPT
               ![c] = Assignments(weights, SegmentCounts(n[c], weights), Len(weights))]
    /\ pc' = [pc EXCEPT ![c] = "shuffle"]
    /\ UNCHANGED <<today, weights, np_state, faker_state, n, seed, customers,
                   df, report, cli, s3>>

\* np.random.shuffle(segment_assignments)
ShuffleAssignments(c) ==
    /\ pc[c] = "shuffle"
    /\ LET r == Shuffle(segment_assignments[c], np_state)
       IN  /\ segment_assignments' = [segment_assignments EXCEPT ![c] = r.v]
           /\ np_state' = r.st
    /\ pc' = [pc EXCEPT ![c] = "records"]
    /\ UNCHANGED <<today, weights, faker_state, n, seed, segment_counts,
                   customers, df, report, cli, s3>>

\* one pass of `for i in range(n)`, i = len(customers)
AppendRecord(c) ==
    /\ pc[c] = "records"
    /\ Len(customers[c]) < n[c]
    /\ Len(customers[c]) < Len(segment_assignments[c])
    /\ LET i == Len(customers[c])
           r == SynthesizeRecord(i, segment_assignments[c][i + 1],
                                 np_state, faker_state, today)
       IN  /\ customers' = [customers EXCEPT ![c] = Append(@, r.row)]
           /\ np_state' = r.nps
           /\ faker_state' = r.fks
    /\ UNCHANGED <<today, weights, pc, n, seed, segment_counts,
                   segment_assignments, df, report, cli, s3>>

\* the loop is over: return pd.DataFrame(customers)
Return(c) ==
    /\ pc[c] = "records"
    /\ Len(customers[c]) >= n[c]
    /\ df' = [df EXCEPT ![c] = DataFrame(customers[c])]
    /\ pc' = [pc EXCEPT ![c] = "returned"]
    /\ UNCHANGED <<today, weights, np_state, faker_state, n, seed, segment_counts,
                   segment_assignments, customers, report, cli, s3>>

\* midnight passes
Tick ==
    /\ today < MaxDay
    /\ today' = today + 1
    /\ UNCHANGED <<weights, np_state, faker_state, pc, n, seed, segment_counts,
                   segment_assignments, customers, df, report, cli, s3>>

Generate(c) ==
    \/ SeedStreams(c)
    \/ Allocate(c)
    \/ ShuffleAssignments(c)
    \/ AppendRecord(c)
    \/ Return(c)

(***************************************************************************)
(* generate_customers run from its first line to its return without any    *)
(* other code running in between, on the day `now`.                        *)
(***************************************************************************)
RECURSIVE RecordsFrom(_, _, _, _, _, _)
RecordsFrom(acc, assignments, nn, nps, fks, now) ==
    IF Len(acc) >= nn \/ Len(acc) >= Len(assignments) THEN acc
    ELSE LET r == SynthesizeRecord(Len(acc), assignments[Len(acc) + 1], nps, fks, now)
         IN  RecordsFrom(Append(acc, r.row), assignments, nn, r.nps, r.fks, now)

generate_customers(nn, s, now) ==
    LET counts == SegmentCounts(nn, SEGMENTS)
        shuffled == Shuffle(Assignments(SEGMENTS, counts, Len(SEGMENTS)), SeedState(s))
    IN  DataFrame(RecordsFrom(<<>>, shuffled.v, nn, shuffled.st, SeedState(s), now))

(***************************************************************************)
(* cli.py: the command generate-customers.  Its call of generate_customers *)
(* is the invocation 1; cli.pc is "running" from the first line up to the  *)
(* test of is_valid, "save" before the file is written, "exited" at the    *)
(* end.  cli.err is what the command echoed to stderr, cli.file the output *)
(* file (None while it does not exist), as a sequence of lines of cells.    *)
(* The command upload-customers uses cli.path (its --file), cli.profile    *)
(* (whether --profile is given), cli.exists (what its test of the file     *)
(* found) and cli.verify (the key and the outcome of its verification).    *)
(***************************************************************************)
generator_vars == <<today, weights, np_state, faker_state, pc, n, seed, segment_counts,
                    segment_assignments, customers, df, report>>

NoCommand == [pc |-> "idle", err |-> <<>>, exit_code |-> None, file |-> None,
              path |-> None, profile |-> FALSE, exists |-> None, verify |-> None]

\* the keys of the dict a record is built from, in their order
COLUMNS == <<"customer_id", "first_name", "last_name", "email", "age", "state",
             "city", "employment_status", "card_type", "credit_limit",
             "account_open_date", "customer_segment", "decline_type">>

NullableColumns ==
    {required_fields[k] : k \in 1..Len(required_fields)} \cup {"decline_type"}

\* the text to_csv writes for one field: nothing for a missing value
Cell(row, column) ==
    IF column \in NullableColumns
    THEN IF IsNull(row[column]) THEN "" ELSE Val(row[column])
    ELSE row[column]

CsvLine(row) == [j \in 1..Len(COLUMNS) |-> Cell(row, COLUMNS[j])]

ToCsvWithoutHeader(frame) == [k \in 1..Len(frame.rows) |-> CsvLine(frame.rows[k])]

\* df.to_csv(filepath, index=False): the column names, then a line per row
ToCsv(frame) ==
    <<COLUMNS>> \o [k \in 1..Len(frame.rows) |-> CsvLine(frame.rows[k])]

EchoFirstError(errors) == SubSeq(errors, 1, 1)

\* for error in validation_result["errors"]: click.echo(f"  - {error}", err=True)
EchoErrors(errors) == [k \in 1..Len(errors) |-> errors[k]]

\* the command is run: click.echo(...); df = generate_customers(n=count, seed=seed)
Invoke(count, s) ==
    /\ cli.pc = "idle"
    /\ pc[1] = "idle"
    /\ cli' = [cli EXCEPT !.pc = "running"]
    /\ pc' = [pc EXCEPT ![1] = "seed"]
    /\ n' = [n EXCEPT ![1] = count]
    /\ seed' = [seed EXCEPT ![1] = s]
    /\ UNCHANGED <<today, weights, np_state, faker_state, segment_counts,
                   segment_assignments, customers, df, report, s3>>

\* generate_customers raises (out of memory, say): except Exception, sys.exit(1)
GenerateRaises ==
    /\ cli.pc = "running"
    /\ pc[1] \in {"seed", "allocate", "shuffle", "records"}
    /\ pc' = [pc EXCEPT ![1] = "failed"]
    /\ cli' = [cli EXCEPT !.pc = "exited",
                          !.err = Append(@, "Error generating customers"),
                          !.exit_code = Some(1)]
    /\ UNCHANGED <<today, weights, np_state, faker_state, n, seed, segment_counts,
                   segment_assignments, customers, df, report, s3>>

\* validate_customer_data raised at line 63, outside any try: the exception
\* leaves the command and the interpreter exits with status 1
Uncaught ==
    /\ cli.pc = "running"
    /\ pc[1] = "raised"
    /\ cli' = [cli EXCEPT !.pc = "exited",
                          !.err = Append(@, report[1].exception),
                          !.exit_code = Some(1)]
    /\ UNCHANGED <<generator_vars, s3>>

\* if not validation_result["is_valid"]: echo the errors, sys.exit(1);
\* otherwise click.echo("Validation passed")
AfterValidation ==
    /\ cli.pc = "running"
    /\ pc[1] = "validated"
    /\ cli' = IF ~report[1].is_valid
              THEN [cli EXCEPT !.pc = "exited",
                               !.err = (@ \o <<"Validation FAILED:">>)
                                           \o EchoErrors(report[1].errors),
                               !.exit_code = Some(1)]
              ELSE [cli EXCEPT !.pc = "save"]
    /\ UNCHANGED <<generator_vars, s3>>

\* mkdir, save_to_csv(df, output), the last echo; the function returns
SaveToCsv ==
    /\ cli.pc = "save"
    /\ cli' = [cli EXCEPT !.pc = "exited",
                          !.file = Some(ToCsv(df[1])),
                          !.exit_code = Some(0)]
    /\ UNCHANGED <<generator_vars, s3>>

\* mkdir or to_csv raises (no permission, disk full): except Exception,
\* sys.exit(1); the file is absent or cut short
SaveRaises ==
    /\ cli.pc = "save"
    /\ \E f \in {None, Some(<<>>)} :
          cli' = [cli EXCEPT !.pc = "exited",
                             !.file = f,
                             !.err = Append(@, "Error saving file"),
                             !.exit_code = Some(1)]
    /\ UNCHANGED <<generator_vars, s3>>

Command == Uncaught \/ AfterValidation \/ SaveToCsv \/ SaveRaises

(***************************************************************************)
(* s3_uploader.py: upload_to_s3 under its retry decorator.                 *)
(*  s3.pc       "idle", "attempt" (the function body starts), "try" (the   *)
(*              try block), "failed" (an exception left the body), "wait"  *)
(*              (backoff before the next attempt), "returned", "raised"    *)
(*  s3.attempt  the number of the current attempt                          *)
(*  s3.log      what each attempt so far ended in                          *)
(*  s3.error    the exception that left the last attempt, if any           *)
(*  s3.result   the value returned to the caller, if any                   *)
(*  s3.slept    the seconds spent waiting between attempts                 *)
(***************************************************************************)
MAX_ATTEMPTS == 3      \* stop_after_attempt(3)
WAIT_MULTIPLIER == 1   \* wait_exponential(multiplier=1, ...)
WAIT_MIN == 2          \* wait_exponential(..., min=2, ...)
WAIT_MAX == 10         \* wait_exponential(..., max=10)

NoUpload == [pc |-> "idle", exists |-> FALSE, profile |-> FALSE, attempt |-> 0,
             log |-> <<>>, error |-> None, result |-> None, slept |-> 0,
             wrapper |-> "idle", csv_file |-> None, key |-> None, outer |-> None]

ClientError(code) == [type |-> "ClientError", code |-> code]
NoCredentialsError == [type |-> "NoCredentialsError", code |-> ""]
ConnectionError == [type |-> "ConnectionError", code |-> ""]
EndpointConnectionError == [type |-> "EndpointConnectionError", code |-> ""]
ProfileNotFound == [type |-> "ProfileNotFound", code |-> ""]
FileNotFoundError == [type |-> "FileNotFoundError", code |-> ""]
Uploaded == [type |-> "ok", code |-> ""]

\* what the try block can end in: the client is made (with the profile if one
\* is named) and upload_file is called; either may fail
TryOutcomes(profile) ==
    {Uploaded, NoCredentialsError, ClientError("AccessDenied"),
     ClientError("ServiceUnavailable"), ConnectionError, EndpointConnectionError}
    \cup (IF profile THEN {ProfileNotFound} ELSE {})

\* the except clauses of the try block: NoCredentialsError and ClientError are
\* raised again, any other exception is logged and the function returns False
Reraised(outcome) == outcome.type \in {"NoCredentialsError", "ClientError"}

\* retry_if_exception_type((ClientError, ConnectionError))
Retries(error) == error.type \in {"ClientError", "ConnectionError"}

RECURSIVE Pow2(_)
Pow2(k) == IF k = 0 THEN 1 ELSE 2 * Pow2(k - 1)

Min(a, b) == IF a <= b THEN a ELSE b
Max(a, b) == IF a >= b THEN a ELSE b

\* wait_exponential: multiplier * 2 ** (attempt - 1), kept within min .. max
Wait(attempt) == Max(WAIT_MIN, Min(WAIT_MULTIPLIER * Pow2(attempt - 1), WAIT_MAX))

\* the call upload_to_s3(local_file, s3_bucket, s3_key, aws_profile)
UploadCall(exists, profile) ==
    /\ s3.pc = "idle"
    /\ s3' = [s3 EXCEPT !.pc = "attempt", !.exists = exists, !.profile = profile,
                        !.attempt = 1]
    /\ UNCHANGED <<generator_vars, cli>>

\* if not file_path.exists(): raise FileNotFoundError; file_path.stat()
CheckFile ==
    /\ s3.pc = "attempt"
    /\ s3' = IF s3.exists
             THEN [s3 EXCEPT !.pc = "try"]
             ELSE [s3 EXCEPT !.pc = "failed", !.error = Some(FileNotFoundError),
                             !.log = Append(@, FileNotFoundError)]
    /\ UNCHANGED <<generator_vars, cli>>

\* the try block with its except clauses
TryUpload ==
    /\ s3.pc = "try"
    /\ \E outcome \in TryOutcomes(s3.profile) :
          s3' = IF outcome = Uploaded
                THEN [s3 EXCEPT !.pc = "returned", !.result = Some(TRUE),
                                !.error = None, !.log = Append(@, outcome)]
                ELSE IF Reraised(outcome)
                THEN [s3 EXCEPT !.pc = "failed", !.error = Some(outcome),
                                !.log = Append(@, outcome)]
                ELSE [s3 EXCEPT !.pc = "returned", !.result = Some(FALSE),
                                !.error = None, !.log = Append(@, outcome)]
    /\ UNCHANGED <<generator_vars, cli>>

\* the decorator after an exception left the body: another attempt if the
\* exception is of a retried type and attempts are left, otherwise the
\* exception is raised to the caller (reraise=True)
AfterFailure ==
    /\ s3.pc = "failed"
    /\ s3' = IF Retries(Val(s3.error)) /\ s3.attempt < MAX_ATTEMPTS
             THEN [s3 EXCEPT !.pc = "wait"]
             ELSE [s3 EXCEPT !.pc = "raised"]
    /\ UNCHANGED <<generator_vars, cli>>

\* the backoff, then the next attempt
Backoff ==
    /\ s3.pc = "wait"
    /\ s3' = [s3 EXCEPT !.pc = "attempt", !.attempt = @ + 1,
                        !.slept = @ + Wait(s3.attempt)]
    /\ UNCHANGED <<generator_vars, cli>>

Upload == CheckFile \/ TryUpload \/ AfterFailure \/ Backoff

(***************************************************************************)
(* s3_uploader.py: upload_customers_to_s3                                  *)
(*  s3.wrapper   "idle", "called", "returned", "raised"                    *)
(*  s3.csv_file  the path handed to it, a sequence of characters            *)
(*  s3.key       the key it uploads under                                   *)
(*  s3.outer     the value it returned, if any                              *)
(***************************************************************************)
\* a path without the slashes it ends in
RECURSIVE StripSlashes(_)
StripSlashes(path) ==
    IF Len(path) > 0 /\ path[Len(path)] = "/"
    THEN StripSlashes(SubSeq(path, 1, Len(path) - 1))
    ELSE path

\* Path(path).name: the final component of the path
PathName(path) ==
    LET t == StripSlashes(path)
        slashes == {k \in 1..Len(t) : t[k] = "/"}
        last == IF slashes = {} THEN 0 ELSE CHOOSE k \in slashes : \A j \in slashes : j <= k
    IN  SubSeq(t, last + 1, Len(t))

CUSTOMERS_PREFIX == <<"c", "u", "s", "t", "o", "m", "e", "r", "s", "/">>

\* s3_key = f"customers/{file_path.name}"
S3Key(path) == CUSTOMERS_PREFIX \o PathName(path)

\* the classes derived from Exception among the exceptions of the model
Exceptions ==
    {"ClientError", "NoCredentialsError", "ConnectionError", "EndpointConnectionError",
     "ProfileNotFound", "FileNotFoundError"}

CaughtClientErrorOnly(error) == error.type = "ClientError"

\* except Exception as e
Caught(error) == error.type \in Exceptions

\* upload_customers_to_s3(csv_file, s3_bucket, aws_profile) is called: the key
\* is made and upload_to_s3 is called with it
CallUploadCustomers(csv_file, exists, profile) ==
    /\ s3.wrapper = "idle"
    /\ s3.pc = "idle"
    /\ s3' = [s3 EXCEPT !.wrapper = "called", !.csv_file = Some(csv_file),
                        !.key = Some(S3Key(csv_file)),
                        !.pc = "attempt", !.exists = exists, !.profile = profile,
                        !.attempt = 1]

UploadCustomersCall(csv_file, exists, profile) ==
    /\ CallUploadCustomers(csv_file, exists, profile)
    /\ UNCHANGED <<generator_vars, cli>>

\* return upload_to_s3(...), or except Exception: return False
UploadCustomersReturn ==
    /\ s3.wrapper = "called"
    /\ s3.pc \in {"returned", "raised"}
    /\ s3' = IF s3.pc = "returned"
             THEN [s3 EXCEPT !.wrapper = "returned", !.outer = s3.result]
             ELSE IF Caught(Val(s3.error))
             THEN [s3 EXCEPT !.wrapper = "returned", !.outer = Some(FALSE)]
             ELSE [s3 EXCEPT !.wrapper = "raised"]
    /\ UNCHANGED <<generator_vars, cli>>

(***************************************************************************)
(* s3_uploader.py: verify_s3_upload; cli.py: upload_customers_command      *)
(***************************************************************************)
Found == [type |-> "found", code |-> ""]

\* what the try block of verify_s3_upload can end in: the client is made and
\* head_object is called; either may fail
VerifyOutcomes(profile) ==
    {Found, ClientError("404"), ClientError("403"), NoCredentialsError,
     EndpointConnectionError}
    \cup (IF profile THEN {ProfileNotFound} ELSE {})

\* verify_s3_upload has only `except ClientError`: any other exception leaves it
VerifyReturns(outcome) == outcome.type \in {"found", "ClientError"}

VerifiedUnlessNotFound(outcome) == outcome # ClientError("404")

\* the value verify_s3_upload returns: True after head_object, False for a
\* ClientError of any code
Verified(outcome) == outcome = Found

\* the command upload-customers is run with --file and maybe --profile
UploadInvoke(file, profile) ==
    /\ cli.pc = "idle"
    /\ s3.wrapper = "idle"
    /\ cli' = [cli EXCEPT !.pc = "check_file", !.path = Some(file), !.profile = profile]
    /\ UNCHANGED <<generator_vars, s3>>

\* if not file_path.exists(): echo, sys.exit(1)
CommandCheckFile ==
    /\ cli.pc = "check_file"
    /\ \E exists \in BOOLEAN :
          cli' = IF exists
                 THEN [cli EXCEPT !.pc = "stat", !.exists = Some(TRUE)]
                 ELSE [cli EXCEPT !.pc = "exited", !.exists = Some(FALSE),
                                  !.err = Append(@, "File not found"),
                                  !.exit_code = Some(1)]
    /\ UNCHANGED <<generator_vars, s3>>

\* file_path.stat(), outside the try block: if the file is gone by now the
\* exception leaves the command and the interpreter exits with status 1
StatFile ==
    /\ cli.pc = "stat"
    /\ \E there \in BOOLEAN :
          cli' = IF there
                 THEN [cli EXCEPT !.pc = "upload"]
                 ELSE [cli EXCEPT !.pc = "exited",
                                  !.err = Append(@, "FileNotFoundError"),
                                  !.exit_code = Some(1)]
    /\ UNCHANGED <<generator_vars, s3>>

\* success = upload_customers_to_s3(csv_file=file, s3_bucket=bucket,
\* aws_profile=profile); the file may be gone when the upload looks for it
CommandUpload ==
    /\ cli.pc = "upload"
    /\ \E exists \in BOOLEAN : CallUploadCustomers(Val(cli.path), exists, cli.profile)
    /\ cli' = [cli EXCEPT !.pc = "uploading"]
    /\ UNCHANGED generator_vars

\* if success: go on to verify; else: echo, sys.exit(1); an exception of the
\* call: except Exception, echo, sys.exit(1)
AfterUpload ==
    /\ cli.pc = "uploading"
    /\ s3.wrapper \in {"returned", "raised"}
    /\ cli' = IF s3.wrapper = "raised"
              THEN [cli EXCEPT !.pc = "exited", !.err = Append(@, "Upload error"),
                               !.exit_code = Some(1)]
              ELSE IF s3.outer = Some(TRUE)
              THEN [cli EXCEPT !.pc = "verify"]
              ELSE [cli EXCEPT !.pc = "exited", !.err = Append(@, "Upload failed"),
                               !.exit_code = Some(1)]
    /\ UNCHANGED <<generator_vars, s3>>

\* s3_key = f"customers/{file_path.name}"; if verify_s3_upload(bucket, s3_key,
\* profile): the success messages, the function returns; else: echo,
\* sys.exit(1); an exception of verify_s3_upload: except Exception, sys.exit(1)
VerifyUpload ==
    /\ cli.pc = "verify"
    /\ \E outcome \in VerifyOutcomes(cli.profile) :
          LET checked == Some([key |-> S3Key(Val(cli.path)), outcome |-> outcome])
          IN  cli' = IF ~VerifyReturns(outcome)
                     THEN [cli EXCEPT !.pc = "exited", !.verify = checked,
                                      !.err = Append(@, "Upload error"),
                                      !.exit_code = Some(1)]
                     ELSE IF Verified(outcome)
                     THEN [cli EXCEPT !.pc = "exited", !.verify = checked,
                                      !.exit_code = Some(0)]
                     ELSE [cli EXCEPT !.pc = "exited", !.verify = checked,
                                      !.err = Append(@, "Upload completed but verification failed"),
                                      !.exit_code = Some(1)]
    /\ UNCHANGED <<generator_vars, s3>>

UploadCommand == CommandCheckFile \/ StatFile \/ CommandUpload \/ AfterUpload \/ VerifyUpload

(***************************************************************************)
(* Spec: one run of the program: generate_customers(n, seed) is called     *)
(* once, the frame it returns is validated; midnight may pass at any time. *)
(***************************************************************************)
InitProcess ==
    /\ np_state = 0
    /\ faker_state = 0
    /\ seed = [c \in Calls |-> 0]
    /\ segment_counts = [c \in Calls |-> <<>>]
    /\ segment_assignments = [c \in Calls |-> <<>>]
    /\ customers = [c \in Calls |-> <<>>]
    /\ report = [c \in Calls |-> NoReport]
    /\ s3 = NoUpload

Init ==
    /\ InitProcess
    /\ cli = NoCommand
    /\ today = 0
    /\ n = [c \in Calls |-> 0]
    /\ weights = SEGMENTS
    /\ pc = [c \in Calls |-> "idle"]
    /\ df = [c \in Calls |-> NoFrame]

Running(c) == pc[c] \in {"seed", "allocate", "shuffle", "records"}

CallOnce == \E nn \in NValues, s \in Seeds : Call(1, nn, s)

Step == \E c \in Calls : Generate(c) \/ Validate(c)

Next == CallOnce \/ Step \/ Tick

Spec == Init /\ [][Next]_vars

(***************************************************************************)
(* SpecSeq: two calls made one after the other in one process.             *)
(***************************************************************************)
SeqNValues == 0..MaxSeqN

CallInTurn ==
    \E c \in Calls, nn \in SeqNValues, s \in Seeds :
        /\ \A d \in Calls : ~Running(d)
        /\ \A d \in Calls : d < c => pc[d] # "idle"
        /\ Call(c, nn, s)

NextSeq == CallInTurn \/ Step \/ Tick

SpecSeq == Init /\ [][NextSeq]_vars

(***************************************************************************)
(* SpecPar: two calls made by two threads of one process; their steps      *)
(* interleave freely.  The calendar day is fixed.                          *)
(***************************************************************************)
ParNValues == 1..MaxParN

CallPar == \E c \in Calls, nn \in ParNValues, s \in Seeds : Call(c, nn, s)

NextPar == CallPar \/ Step

SpecPar == Init /\ [][NextPar]_vars

(***************************************************************************)
(* SpecAlloc: the allocation step alone, on any population size and any    *)
(* sequence of non-negative weights.                                       *)
(***************************************************************************)
WeightPcts == {0, 10, 15, 25, 40, 60}

WeightVectors ==
    UNION {[1..len -> WeightPcts] : len \in 1..MaxSegments}

Named(v) == [k \in 1..Len(v) |-> [name |-> SEGMENTS[k].name, pct |-> v[k]]]

InitAlloc ==
    /\ InitProcess
    /\ cli = NoCommand
    /\ today = 0
    /\ df = [c \in Calls |-> NoFrame]
    /\ \E v \in WeightVectors : weights = Named(v)
    /\ \E nn \in 0..MaxAllocN :
          /\ pc = [c \in Calls |-> IF c = 1 THEN "allocate" ELSE "idle"]
          /\ n = [c \in Calls |-> IF c = 1 THEN nn ELSE 0]

NextAlloc == Allocate(1)

SpecAlloc == InitAlloc /\ [][NextAlloc]_vars

(***************************************************************************)
(* SpecVal: validate_customer_data alone, on frames that have the expected *)
(* columns: rows as the generator makes them, and such rows with one field *)
(* replaced.                                                               *)
(***************************************************************************)
\* a record of the shape generate_customers appends, for loop index i
SampleRecord(i, segment) ==
    [customer_id |-> Some(CustomerId(i)),
     first_name |-> Some(FIRST_NAMES[1]),
     last_name |-> Some(LAST_NAMES[1]),
     email |-> Some(Email(FIRST_NAMES[1], LAST_NAMES[1], FREE_EMAIL_DOMAINS[1])),
     age |-> MIN_AGE,
     state |-> Some(US_STATES[1]),
     city |-> CITIES[1],
     employment_status |-> EMPLOYMENT_STATUSES[1],
     card_type |-> Some("Standard"),
     credit_limit |-> Some(MIN_CREDIT_LIMIT),
     account_open_date |-> 0 - ACCOUNT_OPEN_MAX_YEARS_AGO * 365,
     customer_segment |-> Some(segment),
     decline_type |-> IF segment = "Declining" THEN Some("gradual") ELSE None]

\* the values a test puts into one field of a record
Replacements ==
    {<<f, None>> : f \in {required_fields[k] : k \in 1..Len(required_fields)}}
    \cup {<<"customer_id", Some(<<"I", "N", "V", "A", "L", "I", "D", "1", "2", "3">>)>>,
          <<"email", Some(<<"n", "o", "t", "-", "a", "n", "-", "e", "m", "a", "i", "l">>)>>,
          <<"credit_limit", Some(2 * MAX_CREDIT_LIMIT)>>,
          <<"credit_limit", Some(MIN_CREDIT_LIMIT + 1)>>,
          <<"credit_limit", Some(MIN_CREDIT_LIMIT - CREDIT_LIMIT_STEP)>>,
          <<"decline_type", None>>,
          <<"decline_type", Some("sudden")>>}

SampleRecords ==
    {SampleRecord(i, seg) : i \in 0..1, seg \in {"Declining", "Stable Mid-Spenders"}}

TestRecords ==
    SampleRecords
    \cup {[r EXCEPT ![x[1]] = x[2]] : r \in SampleRecords, x \in Replacements}

TestFrames ==
    {[columns |-> TRUE, rows |-> rows] :
        rows \in UNION {[1..len -> TestRecords] : len \in 1..MaxRows}}

InitVal ==
    /\ InitProcess
    /\ cli = NoCommand
    /\ today = 0
    /\ weights = SEGMENTS
    /\ n = [c \in Calls |-> 0]
    /\ pc = [c \in Calls |-> IF c = 1 THEN "returned" ELSE "idle"]
    /\ \E f \in TestFrames : df = [c \in Calls |-> IF c = 1 THEN f ELSE NoFrame]

NextVal == Validate(1)

SpecVal == InitVal /\ [][NextVal]_vars

(***************************************************************************)
(* SpecInject: the unit tests' scenario: a frame is generated, copies of    *)
(* some of its rows may be appended to it, then it is validated, and        *)
(* validated once more.                                                     *)
(***************************************************************************)
Inject == \E c \in Calls : InjectDuplicate(c)

ValidateAgain == \E c \in Calls : Revalidate(c)

CallInject == \E nn \in 1..MaxInjectN, s \in Seeds : Call(1, nn, s)

NextInject == CallInject \/ Step \/ Inject \/ ValidateAgain

SpecInject == Init /\ [][NextInject]_vars

(***************************************************************************)
(* SpecLarge: one call with a population of 100 or a little more, and the   *)
(* validation of the frame it returns.                                      *)
(***************************************************************************)
LargeNValues == 100..(100 + MaxLargeExtra)

CallLarge == \E nn \in LargeNValues, s \in Seeds : Call(1, nn, s)

NextLarge == CallLarge \/ Step

SpecLarge == Init /\ [][NextLarge]_vars

(***************************************************************************)
(* SpecDist: validate_customer_data alone, on frames of well-formed rows    *)
(* with any segment labels.                                                 *)
(***************************************************************************)
SegmentNames == {SEGMENTS[k].name : k \in 1..Len(SEGMENTS)}

DistFrames ==
    {[columns |-> TRUE,
      rows |-> [k \in 1..Len(labels) |-> SampleRecord(k - 1, labels[k])]] :
        labels \in UNION {[1..len -> SegmentNames] : len \in 1..MaxDistRows}}

InitDist ==
    /\ InitProcess
    /\ cli = NoCommand
    /\ today = 0
    /\ weights = SEGMENTS
    /\ n = [c \in Calls |-> 0]
    /\ pc = [c \in Calls |-> IF c = 1 THEN "returned" ELSE "idle"]
    /\ \E f \in DistFrames : df = [c \in Calls |-> IF c = 1 THEN f ELSE NoFrame]

NextDist == Validate(1)

SpecDist == InitDist /\ [][NextDist]_vars

(***************************************************************************)
(* SpecIgnore: two copies of one frame; cells of the first row of the second *)
(* copy are overwritten, and both copies are validated.                     *)
(***************************************************************************)
IgnoreRecords ==
    {SampleRecord(0, "Declining"),
     SampleRecord(0, "Stable Mid-Spenders"),
     [SampleRecord(0, "Declining") EXCEPT
         !.email = Some(<<"n", "o", "t", "-", "a", "n", "-", "e", "m", "a", "i", "l">>)],
     [SampleRecord(0, "Stable Mid-Spenders") EXCEPT !.credit_limit = Some(MIN_CREDIT_LIMIT + 1)],
     [SampleRecord(0, "Declining") EXCEPT !.decline_type = None],
     [SampleRecord(0, "Stable Mid-Spenders") EXCEPT !.decline_type = Some("sudden")],
     [SampleRecord(0, "Stable Mid-Spenders") EXCEPT !.last_name = None]}

IgnoreFrames ==
    {[columns |-> TRUE, rows |-> rows] :
        rows \in UNION {[1..len -> IgnoreRecords] : len \in 1..MaxIgnoreRows}}

\* the values written into a cell: values of the fields no rule reads, and
\* values that break a rule
CellValues ==
    {<<"age", 2 * MAX_AGE>>,
     <<"city", CITIES[2]>>,
     <<"employment_status", EMPLOYMENT_STATUSES[2]>>,
     <<"account_open_date", ACCOUNT_OPEN_MAX_YEARS_AGO>>,
     <<"state", Some("ZZ")>>,
     <<"card_type", Some("Gold")>>,
     <<"first_name", Some(FIRST_NAMES[2])>>,
     <<"last_name", Some(LAST_NAMES[2])>>,
     <<"decline_type", Some("other")>>,
     <<"decline_type", None>>,
     <<"credit_limit", Some(MIN_CREDIT_LIMIT + 1)>>}

AlteredFields(row, other) == {f \in DOMAIN row : row[f] # other[f]}

Alter ==
    \E x \in CellValues :
        /\ pc[1] = "returned"
        /\ Cardinality(AlteredFields(df[1].rows[1], df[2].rows[1]) \cup {x[1]}) <= MaxAltered
        /\ SetCell(2, x[1], x[2])

InitIgnore ==
    /\ InitProcess
    /\ cli = NoCommand
    /\ today = 0
    /\ weights = SEGMENTS
    /\ n = [c \in Calls |-> 0]
    /\ pc = [c \in Calls |-> "returned"]
    /\ \E f \in IgnoreFrames : df = [c \in Calls |-> f]

ValidateEither == \E c \in Calls : Validate(c)

NextIgnore == Alter \/ ValidateEither

SpecIgnore == InitIgnore /\ [][NextIgnore]_vars

(***************************************************************************)
(* SpecCmd: one run of the command generate-customers, from its invocation *)
(* to its exit; midnight may pass at any time.                              *)
(***************************************************************************)
InvokeOnce == \E count \in NValues, s \in Seeds : Invoke(count, s)

NextCmd == InvokeOnce \/ Generate(1) \/ GenerateRaises \/ Validate(1) \/ Command \/ Tick

SpecCmd == Init /\ [][NextCmd]_vars

(***************************************************************************)
(* SpecCmdVal: the command from its call of validate_customer_data on, for *)
(* any frame that generate_customers may have handed it: the command does  *)
(* not rely on what the generator guarantees.                               *)
(***************************************************************************)
CmdFrames ==
    {[columns |-> TRUE, rows |-> rows] :
        rows \in UNION {[1..len -> TestRecords] : len \in 1..MaxCmdRows}}

InitCmdVal ==
    /\ InitProcess
    /\ today = 0
    /\ weights = SEGMENTS
    /\ pc = [c \in Calls |-> IF c = 1 THEN "returned" ELSE "idle"]
    /\ \E f \in CmdFrames :
          /\ df = [c \in Calls |-> IF c = 1 THEN f ELSE NoFrame]
          /\ n = [c \in Calls |-> IF c = 1 THEN Len(f.rows) ELSE 0]
    /\ cli = [NoCommand EXCEPT !.pc = "running"]

NextCmdVal == Validate(1) \/ Command

SpecCmdVal == InitCmdVal /\ [][NextCmdVal]_vars

(***************************************************************************)
(* SpecUpload: one call of upload_to_s3; each attempt may end in any of    *)
(* the outcomes of the try block.                                           *)
(***************************************************************************)
UploadOnce == \E exists \in BOOLEAN, profile \in BOOLEAN : UploadCall(exists, profile)

NextUpload == UploadOnce \/ Upload

SpecUpload == Init /\ [][NextUpload]_vars

(***************************************************************************)
(* SpecUploadCustomers: one call of upload_customers_to_s3, for a file      *)
(* that may be missing and a profile that may be named.                     *)
(***************************************************************************)
\* paths of the csv file: a bare name, names in directories, a path that
\* ends in a slash
Paths ==
    {<<"c", ".", "c", "s", "v">>,
     <<"d", "/", "c", ".", "c", "s", "v">>,
     <<"/", "d", "/", "e", "/", "c">>,
     <<"d", "/", "e", "/">>}

UploadCustomersOnce ==
    \E csv_file \in Paths, exists \in BOOLEAN, profile \in BOOLEAN :
        UploadCustomersCall(csv_file, exists, profile)

NextUploadCustomers == UploadCustomersOnce \/ Upload \/ UploadCustomersReturn

SpecUploadCustomers == Init /\ [][NextUploadCustomers]_vars

(***************************************************************************)
(* SpecUploadCmd: one run of the command upload-customers, from its        *)
(* invocation to its exit.                                                  *)
(***************************************************************************)
UploadInvokeOnce ==
    \E file \in Paths, profile \in BOOLEAN : UploadInvoke(file, profile)

NextUploadCmd == UploadInvokeOnce \/ UploadCommand \/ Upload \/ UploadCustomersReturn

SpecUploadCmd == Init /\ [][NextUploadCmd]_vars

(***************************************************************************)
(* Properties                                                              *)
(***************************************************************************)
Finished == {"returned", "validated", "raised"}

RECURSIVE SumSeq(_)
SumSeq(q) == IF q = <<>> THEN 0 ELSE q[1] + SumSeq(Tail(q))

DigitValue(ch) == CHOOSE k \in 0..9 : Digits[k + 1] = ch

\* the number a sequence of decimal digits writes
RECURSIVE ToNat(_)
ToNat(q) ==
    IF q = <<>> THEN 0
    ELSE 10 * ToNat(SubSeq(q, 1, Len(q) - 1)) + DigitValue(q[Len(q)])

Labels(rows) == [k \in 1..Len(rows) |-> Val(rows[k].customer_segment)]

\* C1: for every n >= 0 and every sequence of non-negative weights, the
\* per-segment counts the allocation step computes sum to exactly n.
C1_AllocationSumsToN ==
    \A c \in Calls :
        (pc[c] = "shuffle" /\ n[c] >= 0) => SumSeq(segment_counts[c]) = n[c]

\* C1 witness: an allocation over several segments, with a non-last segment
\* and the last segment both given records.
C1_Witness ==
    /\ pc[1] = "shuffle"
    /\ Len(weights) > 1
    /\ segment_counts[1][1] > 0
    /\ segment_counts[1][Len(weights)] > 0

\* C2: two calls generate_customers(n, seed) with the same n and seed, made at
\* any two points in time, return frames equal in every field of every row,
\* account_open_date included.
C2_SameArgumentsSameFrame ==
    (pc[1] \in Finished /\ pc[2] \in Finished /\ n[1] = n[2] /\ seed[1] = seed[2])
        => df[1] = df[2]

\* C3: when two calls with different seeds run in parallel in one process,
\* however their steps interleave, each returns the frame it returns when it
\* runs alone.
C3_ParallelCallsAsAlone ==
    (pc[1] \in Finished /\ pc[2] \in Finished /\ seed[1] # seed[2])
        => \A c \in Calls : df[c] = generate_customers(n[c], seed[c], today)

\* C4: in every returned frame the row at 0-based position i carries the
\* identifier CUST followed by i + 1 written in 8 zero-padded digits; so the
\* identifiers are pairwise different, run through 1 .. n without a gap and
\* match CUST followed by exactly 8 digits, whatever the seed and the shuffle.
C4_IdentifierOfPosition ==
    \A c \in Calls :
        pc[c] \in Finished =>
            LET rows == df[c].rows
            IN  /\ \A k \in 1..Len(rows) :
                      /\ ~IsNull(rows[k].customer_id)
                      /\ LET id == Val(rows[k].customer_id)
                         IN  /\ Len(id) = 12
                             /\ SubSeq(id, 1, 4) = <<"C", "U", "S", "T">>
                             /\ \A j \in 5..12 : id[j] \in DigitSet
                             /\ ToNat(SubSeq(id, 5, 12)) = k
                /\ \A j, k \in 1..Len(rows) :
                      j # k => rows[j].customer_id # rows[k].customer_id

\* C4 witness: a returned frame long enough for a two-digit ordinal.
C4_Witness ==
    /\ pc[1] \in Finished
    /\ Len(df[1].rows) >= 10
    /\ df[1].rows[10].customer_id
           = Some(<<"C", "U", "S", "T", "0", "0", "0", "0", "0", "0", "1", "0">>)

\* C5: in every returned frame decline_type is set exactly on the records of
\* the Declining segment, and a set decline_type is "gradual" or "sudden".
C5_DeclineTypeIffDeclining ==
    \A c \in Calls :
        pc[c] \in Finished =>
            \A k \in 1..Len(df[c].rows) :
                LET row == df[c].rows[k]
                IN  /\ ~IsNull(row.decline_type) <=> row.customer_segment = Some("Declining")
                    /\ ~IsNull(row.decline_type)
                          => Val(row.decline_type) \in {"gradual", "sudden"}

\* C5 witness: a returned frame with a Declining record that has a decline
\* type and a record of another segment that has none.
C5_Witness ==
    /\ pc[1] \in Finished
    /\ \E j, k \in 1..Len(df[1].rows) :
          /\ df[1].rows[j].customer_segment = Some("Declining")
          /\ ~IsNull(df[1].rows[j].decline_type)
          /\ df[1].rows[k].customer_segment # Some("Declining")
          /\ IsNull(df[1].rows[k].decline_type)

\* C6: in every returned frame each credit_limit lies in
\* MIN_CREDIT_LIMIT .. MAX_CREDIT_LIMIT and is a multiple of CREDIT_LIMIT_STEP,
\* and each age lies in MIN_AGE .. MAX_AGE.
C6_RangesOfCreditLimitAndAge ==
    \A c \in Calls :
        pc[c] \in Finished =>
            \A k \in 1..Len(df[c].rows) :
                LET row == df[c].rows[k]
                IN  /\ ~IsNull(row.credit_limit)
                    /\ Val(row.credit_limit) >= MIN_CREDIT_LIMIT
                    /\ Val(row.credit_limit) <= MAX_CREDIT_LIMIT
                    /\ Val(row.credit_limit) % CREDIT_LIMIT_STEP = 0
                    /\ row.age >= MIN_AGE
                    /\ row.age <= MAX_AGE

\* C6 witness: a returned frame in which both ends of both ranges occur.
C6_Witness ==
    /\ pc[1] \in Finished
    /\ \E k \in 1..Len(df[1].rows) : df[1].rows[k].credit_limit = Some(MIN_CREDIT_LIMIT)
    /\ \E k \in 1..Len(df[1].rows) : df[1].rows[k].credit_limit = Some(MAX_CREDIT_LIMIT)
    /\ \E k \in 1..Len(df[1].rows) : df[1].rows[k].age = MIN_AGE
    /\ \E k \in 1..Len(df[1].rows) : df[1].rows[k].age = MAX_AGE

\* C7: for every n >= 0 and every seed the returned frame has exactly n
\* records, and each segment label occurs in it as often as the allocation
\* counted: the shuffle only permutes the labels.
C7_LengthAndLabelCounts ==
    \A c \in Calls :
        (pc[c] \in Finished /\ n[c] >= 0) =>
            /\ Len(df[c].rows) = n[c]
            /\ \A k \in 1..Len(weights) :
                  SegmentCount(df[c].rows, weights[k].name) = segment_counts[c][k]
            /\ \A k \in 1..Len(df[c].rows) :
                  \E j \in 1..Len(weights) :
                      df[c].rows[k].customer_segment = Some(weights[j].name)

\* C7 witness: a returned frame whose labels are not in the order the
\* allocation listed them, so that the shuffle has moved some.
C7_Witness ==
    /\ pc[1] \in Finished
    /\ n[1] >= 3
    /\ Labels(df[1].rows) # Assignments(weights, segment_counts[1], Len(weights))

\* C8: for every n >= 1 and every seed, validating the frame that
\* generate_customers(n, seed) returned gives is_valid = True and no errors.
C8_GeneratedFrameIsValid ==
    \A c \in Calls :
        (pc[c] \in {"validated", "raised"} /\ n[c] >= 1) =>
            /\ report[c].outcome = "returned"
            /\ report[c].is_valid
            /\ report[c].errors = <<>>

\* C8 witness: a validated frame with records of the Declining and of the
\* premium-eligible segment.
C8_Witness ==
    /\ pc[1] = "validated"
    /\ \E k \in 1..Len(df[1].rows) : df[1].rows[k].customer_segment = Some("Declining")
    /\ \E k \in 1..Len(df[1].rows) :
          df[1].rows[k].customer_segment = Some("High-Value Travelers")

\* C9: validate_customer_data never raises on a frame with the expected
\* columns, also when a row has a null in a required field: it returns a
\* report, and the report names every required field that has a null.
C9_ValidatorNeverRaises ==
    \A c \in Calls :
        pc[c] \in {"validated", "raised"} =>
            /\ report[c].outcome = "returned"
            /\ \A k \in 1..Len(required_fields) :
                  NullCount(df[c].rows, required_fields[k]) > 0
                      => \E e \in 1..Len(report[c].errors) :
                            /\ report[c].errors[e].rule = "null"
                            /\ report[c].errors[e].field = required_fields[k]

\* C10: for n = 0 and for n < 0 generate_customers fails before it makes any
\* record; it never returns a frame for such n.
C10_NonPositiveSizeNeverReturns ==
    \A c \in Calls : pc[c] \in Finished => n[c] >= 1

\* the violations of the data rules, read off the rows of a frame
HasNullRequired(rows) ==
    \E k \in 1..Len(rows), f \in 1..Len(required_fields) :
        IsNull(rows[k][required_fields[f]])

HasDuplicatedId(rows) ==
    \E j, k \in 1..Len(rows) : j < k /\ rows[j].customer_id = rows[k].customer_id

HasMalformedId(rows) ==
    \E k \in 1..Len(rows) :
        ~IsNull(rows[k].customer_id) /\ ~IdMatches(Val(rows[k].customer_id))

HasMalformedEmail(rows) ==
    \E k \in 1..Len(rows) :
        ~IsNull(rows[k].email) /\ ~EmailMatches(Val(rows[k].email))

HasBadCreditLimit(rows) ==
    \E k \in 1..Len(rows) :
        /\ ~IsNull(rows[k].credit_limit)
        /\ \/ Val(rows[k].credit_limit) < MIN_CREDIT_LIMIT
           \/ Val(rows[k].credit_limit) > MAX_CREDIT_LIMIT
           \/ Val(rows[k].credit_limit) % CREDIT_LIMIT_STEP # 0

DecliningWithoutType(rows) ==
    {k \in 1..Len(rows) :
        rows[k].customer_segment = Some("Declining") /\ rows[k].decline_type = None}

OtherWithType(rows) ==
    {k \in 1..Len(rows) :
        rows[k].customer_segment # Some("Declining") /\ rows[k].decline_type # None}

Violates(rows) ==
    \/ HasNullRequired(rows)
    \/ HasDuplicatedId(rows)
    \/ HasMalformedId(rows)
    \/ HasMalformedEmail(rows)
    \/ HasBadCreditLimit(rows)
    \/ DecliningWithoutType(rows) # {}
    \/ OtherWithType(rows) # {}

ErrorsOfRule(errors, rule) == {e \in 1..Len(errors) : errors[e].rule = rule}

Validated == {"validated", "revalidated"}

\* C11: whenever validate_customer_data returns, is_valid is True exactly
\* when the error list is empty, and the error list is non-empty exactly when
\* the frame has a null in a required field, a duplicated customer_id, a
\* customer_id not of the form CUST + 8 digits, a non-null email not of the
\* form local@domain.tld, a credit_limit below the minimum, above the maximum
\* or off the step, a Declining record without decline_type, or a record of
\* another segment with a decline_type.
C11_ErrorsIffViolation ==
    \A c \in Calls :
        report[c].outcome = "returned" =>
            /\ report[c].is_valid <=> report[c].errors = <<>>
            /\ report[c].errors # <<>> <=> Violates(df[c].rows)

\* C11 witness: a validated frame whose only violation is a credit limit
\* inside the range but off the step, next to a record without violation.
C11_Witness ==
    /\ pc[1] = "validated"
    /\ Len(df[1].rows) = 2
    /\ df[1].rows[1].credit_limit = Some(MIN_CREDIT_LIMIT + 1)
    /\ ~Violates(<<df[1].rows[2]>>)
    /\ ErrorsOfRule(report[1].errors, "credit_limit") = {1}
    /\ ~report[1].is_valid

C13_InjectedDuplicatesReported ==
    \A c \in Calls :
        (pc[c] \in Validated \cup {"raised"} /\ n[c] >= 1 /\ Len(df[c].rows) > n[c]) =>
            /\ report[c].outcome = "returned"
            /\ ~report[c].is_valid
            /\ Cardinality(ErrorsOfRule(report[c].errors, "duplicate")) = 1
            /\ \A e \in ErrorsOfRule(report[c].errors, "duplicate") :
                  report[c].errors[e].count = Len(df[c].rows) - n[c]

\* C13 witness: a validated frame to which the same row was appended twice.
C13_Witness ==
    /\ pc[1] = "validated"
    /\ n[1] >= 2
    /\ Len(df[1].rows) = n[1] + 2
    /\ df[1].rows[n[1] + 1] = df[1].rows[n[1] + 2]
    /\ report[1].errors = <<Error("duplicate", "customer_id", 2)>>

\* C14: for each required field the call reports an error naming the field
\* and its number of nulls exactly when the field has a null, and the report
\* it returns then has is_valid = False.
C14_NullErrorPerRequiredField ==
    \A c \in Calls :
        pc[c] \in Validated \cup {"raised"} =>
            /\ report[c].outcome = "returned"
            /\ \A f \in 1..Len(required_fields) :
                  LET nulls == Cardinality({k \in 1..Len(df[c].rows) :
                                   df[c].rows[k][required_fields[f]] = None})
                  IN  /\ nulls > 0 <=>
                            \E e \in 1..Len(report[c].errors) :
                                report[c].errors[e] = Error("null", required_fields[f], nulls)
                      /\ nulls > 0 => ~report[c].is_valid

\* C15: a configured segment gets a warning exactly when its share of the
\* frame (0 when it is absent) differs from its target weight by more than
\* 0.05; a difference of exactly 0.05 gives no warning; and warnings add no
\* error: a frame without violation stays valid.
C15_WarningIffDeviationAboveTolerance ==
    \A c \in Calls :
        pc[c] \in Validated =>
            LET rows == df[c].rows
                total == Cardinality({k \in 1..Len(rows) : rows[k].customer_segment # None})
            IN  /\ \A s \in 1..Len(SEGMENTS) :
                      LET count == Cardinality({k \in 1..Len(rows) :
                                       rows[k].customer_segment = Some(SEGMENTS[s].name)})
                          above == 100 * count - SEGMENTS[s].pct * total
                          off == IF above >= 0 THEN above ELSE 0 - above
                      IN  (\E w \in 1..Len(report[c].warnings) :
                               report[c].warnings[w] = SEGMENTS[s].name)
                          <=> IF total = 0 THEN SEGMENTS[s].pct > 5 ELSE off > 5 * total
                /\ ~Violates(rows) => report[c].is_valid /\ report[c].errors = <<>>

C17_InvalidFrameEchoedAndNotSaved ==
    /\ (cli.pc = "exited" /\ report[1].outcome = "returned" /\ ~report[1].is_valid) =>
          /\ Len(cli.err) = 1 + Len(report[1].errors)
          /\ \A e \in 1..Len(report[1].errors) : cli.err[e + 1] = report[1].errors[e]
          /\ cli.exit_code \notin {None, Some(0)}
          /\ cli.file = None
    /\ (cli.pc = "save" \/ cli.file # None) =>
          /\ report[1].outcome = "returned"
          /\ report[1].is_valid

\* C17 witness: the command has exited on a frame with two errors, both
\* echoed, with status 1 and without a file.
C17_Witness ==
    /\ cli.pc = "exited"
    /\ report[1].outcome = "returned"
    /\ Len(report[1].errors) = 2
    /\ Len(cli.err) = 3
    /\ cli.err[3] = report[1].errors[2]
    /\ cli.exit_code = Some(1)
    /\ cli.file = None

\* C18: the command exits with status 0 only if generate_customers returned
\* a table, validation passed and the file was written, and the file then
\* holds the header line followed by exactly `count` record lines; a failure
\* of the generation or of the file write ends the run with a non-zero
\* status.
C18_ExitZeroOnlyWithCompleteFile ==
    /\ cli.exit_code = Some(0) =>
          /\ pc[1] = "validated"
          /\ df[1].columns
          /\ report[1].outcome = "returned"
          /\ report[1].is_valid
          /\ cli.file # None
          /\ Len(Val(cli.file)) = 1 + n[1]
          /\ Val(cli.file)[1] = COLUMNS
          /\ \A k \in 1..n[1] :
                /\ Len(Val(cli.file)[k + 1]) = Len(COLUMNS)
                /\ Val(cli.file)[k + 1][1] = Val(df[1].rows[k].customer_id)
    /\ (cli.pc = "exited" /\ pc[1] = "failed") => cli.exit_code \notin {None, Some(0)}
    /\ (cli.pc = "exited" /\ pc[1] = "validated" /\ report[1].is_valid
            /\ cli.err = <<"Error saving file">>)
          => cli.exit_code \notin {None, Some(0)}

\* C18 witness: the command has exited with status 0 after writing the
\* header and the lines of several records.
C18_Witness ==
    /\ cli.exit_code = Some(0)
    /\ n[1] >= 2
    /\ Len(Val(cli.file)) = 1 + n[1]

\* C19: an attempt of upload_to_s3 that ends in ConnectionError or in
\* ClientError is followed by another attempt until 3 attempts have been
\* made, after which the last error is raised to the caller; no more than 3
\* attempts are made; an attempt that succeeds makes the call return True.
C19_TransientErrorsRetriedUpToThreeTimes ==
    /\ Len(s3.log) <= 3
    /\ (s3.pc \in {"returned", "raised"} /\ s3.log # <<>>) =>
          LET last == s3.log[Len(s3.log)]
          IN  /\ last.type = "ok" => s3.pc = "returned" /\ s3.result = Some(TRUE)
              /\ last.type \in {"ConnectionError", "ClientError"} =>
                    /\ Len(s3.log) = 3
                    /\ s3.pc = "raised"
                    /\ s3.error = Some(last)

\* C20: an attempt of upload_to_s3 that ends in a permission failure (a
\* ClientError with code AccessDenied) or in NoCredentialsError is the last
\* attempt of the call: no retry follows and the error is raised to the
\* caller.
C20_PermissionAndCredentialFailuresFatal ==
    \A k \in 1..Len(s3.log) :
        (s3.log[k] = ClientError("AccessDenied") \/ s3.log[k] = NoCredentialsError) =>
            /\ Len(s3.log) = k
            /\ s3.pc \in {"failed", "raised"}
            /\ s3.error = Some(s3.log[k])

C22_PremiumOnlyForHighValueTravelers ==
    \A c \in Calls :
        pc[c] \in Finished =>
            \A k \in 1..Len(df[c].rows) :
                LET row == df[c].rows[k]
                IN  /\ row.card_type \in {Some("Standard"), Some("Premium")}
                    /\ row.card_type = Some("Premium")
                          => row.customer_segment = Some("High-Value Travelers")
                    /\ row.customer_segment # Some("High-Value Travelers")
                          => row.card_type = Some("Standard")

\* C22 witness: a returned frame with a Premium record of High-Value
\* Travelers next to records of other segments.
C22_Witness ==
    /\ pc[1] \in Finished
    /\ \E k \in 1..Len(df[1].rows) :
          /\ df[1].rows[k].card_type = Some("Premium")
          /\ df[1].rows[k].customer_segment = Some("High-Value Travelers")
    /\ \E k \in 1..Len(df[1].rows) :
          df[1].rows[k].customer_segment = Some("Declining")

\* C24: the allocation visits the segments in declaration order; each
\* segment but the last gets floor(n * weight), the last gets n minus the
\* counts given before it; with all weights zero the last gets n.
C24_FloorThenRemainder ==
    \A c \in Calls :
        (pc[c] = "shuffle" /\ n[c] >= 0) =>
            LET counts == segment_counts[c]
                last == Len(weights)
            IN  /\ Len(counts) = last
                /\ \A k \in 1..(last - 1) :
                      /\ 100 * counts[k] <= n[c] * weights[k].pct
                      /\ 100 * (counts[k] + 1) > n[c] * weights[k].pct
                /\ counts[last] = n[c] - SumSeq(SubSeq(counts, 1, last - 1))
                /\ (\A k \in 1..last : weights[k].pct = 0) =>
                      /\ \A k \in 1..(last - 1) : counts[k] = 0
                      /\ counts[last] = n[c]

\* C24 witness: an allocation over three segments in which the last count is
\* more than the floor of its own share: it took the rounding remainder.
C24_Witness ==
    /\ pc[1] = "shuffle"
    /\ Len(weights) = 3
    /\ segment_counts[1][1] > 0
    /\ 100 * (segment_counts[1][3] - 1) >= n[1] * weights[3].pct
    /\ weights[1].pct + weights[2].pct + weights[3].pct = 100

\* C25: the days-ago value of each record appended lies in
\* 2 * 365 .. 5 * 365 = 730 .. 1825, so its account_open_date lies between
\* 1825 and 730 days before the day it is generated on; the lower bound of
\* the draw is not above its upper bound.
C25_AccountOpenedTwoToFiveYearsAgo ==
    [][\A c \in Calls :
          Len(customers'[c]) = Len(customers[c]) + 1 =>
              LET days_ago == today - customers'[c][Len(customers'[c])].account_open_date
              IN  /\ days_ago >= 730
                  /\ days_ago <= 1825
                  /\ ACCOUNT_OPEN_MAX_YEARS_AGO * 365 = 730
                  /\ ACCOUNT_OPEN_MIN_YEARS_AGO * 365 = 1825]_vars

\* C25 witness: a frame generated within one day that holds an account
\* opened 730 days before it and one opened 1825 days before it.
C25_Witness ==
    /\ pc[1] \in Finished
    /\ today = 0
    /\ \E k \in 1..Len(df[1].rows) : df[1].rows[k].account_open_date = today - 730
    /\ \E k \in 1..Len(df[1].rows) : df[1].rows[k].account_open_date = today - 1825

\* C23: for n >= 100 each configured segment's share of the returned frame
\* differs from its target weight by at most 0.05, and validation of the
\* frame gives no distribution warning.
C23_LargeFrameWithinTolerance ==
    \A c \in Calls :
        (pc[c] \in Finished /\ n[c] >= 100) =>
            /\ \A s \in 1..Len(SEGMENTS) :
                  LET count == Cardinality({k \in 1..Len(df[c].rows) :
                                   df[c].rows[k].customer_segment = Some(SEGMENTS[s].name)})
                  IN  /\ 100 * count - SEGMENTS[s].pct * n[c] <= 5 * n[c]
                      /\ SEGMENTS[s].pct * n[c] - 100 * count <= 5 * n[c]
            /\ pc[c] \in Validated => report[c].warnings = <<>>

\* C23 witness: a validated frame of more than 100 records in which a
\* segment's share is not its target weight, and no warning.
C23_Witness ==
    /\ pc[1] = "validated"
    /\ n[1] > 100
    /\ 100 * SegmentCount(df[1].rows, "New & Growing") # 10 * n[1]
    /\ report[1].warnings = <<>>

\* the place of an error entry in the fixed order of the rules
Rank(error) ==
    IF error.rule = "null"
    THEN CHOOSE f \in 1..Len(required_fields) : required_fields[f] = error.field
    ELSE Len(required_fields)
         + (CASE error.rule = "duplicate" -> 1
              [] error.rule = "id_format" -> 2
              [] error.rule = "email_format" -> 3
              [] error.rule = "credit_limit" -> 4
              [] error.rule = "declining_without_decline_type" -> 5
              [] error.rule = "non_declining_with_decline_type" -> 6)

\* the rows that break the identifier format and the credit limit rule: a
\* missing value is no identifier of the format and no limit of the range
OffFormatIds(rows) ==
    {k \in 1..Len(rows) :
        rows[k].customer_id = None \/ ~IdMatches(Val(rows[k].customer_id))}

OffRangeLimits(rows) ==
    {k \in 1..Len(rows) :
        \/ rows[k].credit_limit = None
        \/ Val(rows[k].credit_limit) < MIN_CREDIT_LIMIT
        \/ Val(rows[k].credit_limit) > MAX_CREDIT_LIMIT
        \/ Val(rows[k].credit_limit) % CREDIT_LIMIT_STEP # 0}

\* C26: whenever validate_customer_data returns, the error list holds one
\* entry for each violated rule and nothing else, in the fixed order: the
\* required fields with nulls in their order, duplicates, identifier
\* format, email format, credit limits (one entry with the number of all
\* offending limits), Declining without decline_type, other segments with
\* decline_type; no violation hides the entry of another rule.
C26_OneEntryPerRuleInOrder ==
    \A c \in Calls :
        report[c].outcome = "returned" =>
            LET errors == report[c].errors
                rows == df[c].rows
                Has(rule) == ErrorsOfRule(errors, rule) # {}
            IN  /\ \A d, e \in 1..Len(errors) : d < e => Rank(errors[d]) < Rank(errors[e])
                /\ \A f \in 1..Len(required_fields) :
                      (\E e \in 1..Len(errors) :
                           errors[e].rule = "null" /\ errors[e].field = required_fields[f])
                      <=> \E k \in 1..Len(rows) : rows[k][required_fields[f]] = None
                /\ Has("duplicate") <=> HasDuplicatedId(rows)
                /\ Has("id_format") <=> OffFormatIds(rows) # {}
                /\ Has("email_format") <=> HasMalformedEmail(rows)
                /\ Has("credit_limit") <=> OffRangeLimits(rows) # {}
                /\ \A e \in ErrorsOfRule(errors, "credit_limit") :
                      errors[e].count = Cardinality(OffRangeLimits(rows))
                /\ Has("declining_without_decline_type") <=> DecliningWithoutType(rows) # {}
                /\ Has("non_declining_with_decline_type") <=> OtherWithType(rows) # {}

\* C26 witness: a validated frame whose first row breaks the credit limit
\* rule and whose second row breaks the email rule: the email entry comes
\* first, the credit limit entry second, and there is no third.
C26_Witness ==
    /\ pc[1] = "validated"
    /\ Len(df[1].rows) = 2
    /\ df[1].rows[1].credit_limit = Some(2 * MAX_CREDIT_LIMIT)
    /\ df[1].rows[2].email # None
    /\ ~EmailMatches(Val(df[1].rows[2].email))
    /\ Len(report[1].errors) = 2
    /\ report[1].errors[1].rule = "email_format"
    /\ report[1].errors[2].rule = "credit_limit"

\* C27: in a sequence of calls made one after another in one process, the
\* frame each call returns is the frame generate_customers(n, seed) returns
\* when it is the only call made, up to the day each record is generated on:
\* it does not depend on the calls made before it.
C27_SequentialCallsIndependent ==
    [][\A c \in Calls :
          (pc[c] = "records" /\ pc'[c] = "returned") =>
              /\ df'[c].columns = generate_customers(n[c], seed[c], 0).columns
              /\ Len(df'[c].rows) = Len(generate_customers(n[c], seed[c], 0).rows)
              /\ \A k \in 1..Len(df'[c].rows) :
                    \E day \in 0..MaxDay :
                        df'[c].rows[k] = generate_customers(n[c], seed[c], day).rows[k]]_vars

\* C27 witness: a second call has returned a frame of several records after
\* a first call with another seed returned one.
C27_Witness ==
    /\ pc[1] \in Finished
    /\ pc[2] \in Finished
    /\ seed[1] # seed[2]
    /\ n[1] >= 2
    /\ n[2] >= 2

(***************************************************************************)
(* C28                                                                     *)
(***************************************************************************)
\* what the rules read of a row: the identifier, the email, the credit limit
\* and the segment, and of the other required fields and of decline_type only
\* whether the value is missing
SameToTheRules(row, other) ==
    /\ row.customer_id = other.customer_id
    /\ row.email = other.email
    /\ row.credit_limit = other.credit_limit
    /\ row.customer_segment = other.customer_segment
    /\ \A f \in {"state", "card_type", "first_name", "last_name", "decline_type"} :
          IsNull(row[f]) <=> IsNull(other[f])

DifferOnlyInIgnored(rows, others) ==
    /\ Len(rows) = Len(others)
    /\ \A k \in 1..Len(rows) : SameToTheRules(rows[k], others[k])

\* C28: two tables that differ only in age, city, employment_status,
\* account_open_date, in the values of non-null state, card_type, first_name
\* and last_name, and in which non-null value decline_type has, get the same
\* errors list and the same is_valid from the validator.
C28_IgnoredFieldsDoNotChangeErrors ==
    (/\ pc[1] = "validated"
     /\ pc[2] = "validated"
     /\ DifferOnlyInIgnored(df[1].rows, df[2].rows))
        => /\ report[1].errors = report[2].errors
           /\ report[1].is_valid = report[2].is_valid

\* C28 witness: both copies are validated; the second has an age above the
\* maximum and a decline_type that is neither gradual nor sudden in its first
\* row, and both reports list the same error.
C28_Witness ==
    /\ pc[1] = "validated"
    /\ pc[2] = "validated"
    /\ DifferOnlyInIgnored(df[1].rows, df[2].rows)
    /\ df[1].rows[1].age <= MAX_AGE
    /\ df[2].rows[1].age > MAX_AGE
    /\ df[1].rows[1].decline_type = Some("gradual")
    /\ df[2].rows[1].decline_type = Some("other")
    /\ ~report[2].is_valid
    /\ report[1].errors = report[2].errors

(***************************************************************************)
(* C29                                                                     *)
(***************************************************************************)
\* name is the base name of path: it has no slash, and path, but for the
\* slashes it ends in, is name or ends in a slash followed by name
IsBaseName(name, path) ==
    /\ \A k \in 1..Len(name) : name[k] # "/"
    /\ \E m \in 0..Len(path) :
          /\ \A k \in (m + 1)..Len(path) : path[k] = "/"
          /\ m >= Len(name)
          /\ SubSeq(path, m - Len(name) + 1, m) = name
          /\ (m = 0 \/ path[m] # "/")
          /\ (m > Len(name) => path[m - Len(name)] = "/")

\* C29: upload_customers_to_s3 never raises; it uploads under the key
\* 'customers/<base name of the file>'; it returns True exactly when an
\* attempt of the upload succeeded and False for every failure.
C29_UploadCustomersReturnsSuccess ==
    /\ s3.wrapper # "raised"
    /\ s3.wrapper \in {"called", "returned"} =>
          /\ s3.key # None
          /\ Len(Val(s3.key)) >= Len(CUSTOMERS_PREFIX)
          /\ SubSeq(Val(s3.key), 1, Len(CUSTOMERS_PREFIX)) = CUSTOMERS_PREFIX
          /\ IsBaseName(SubSeq(Val(s3.key), Len(CUSTOMERS_PREFIX) + 1, Len(Val(s3.key))),
                        Val(s3.csv_file))
    /\ s3.wrapper = "returned" =>
          /\ s3.outer \in {Some(TRUE), Some(FALSE)}
          /\ s3.outer = Some(TRUE) <=>
                (Len(s3.log) > 0 /\ s3.log[Len(s3.log)] = Uploaded)

\* C29 witness: the call returned False for a file in a directory after the
\* service refused every one of the attempts and the last error was raised
\* by upload_to_s3.
C29_Witness ==
    /\ s3.wrapper = "returned"
    /\ s3.outer = Some(FALSE)
    /\ s3.pc = "raised"
    /\ s3.attempt = MAX_ATTEMPTS
    /\ Len(PathName(Val(s3.csv_file))) < Len(Val(s3.csv_file))
    /\ s3.log[Len(s3.log)] = ClientError("ServiceUnavailable")

(***************************************************************************)
(* C30                                                                     *)
(***************************************************************************)
\* C30: the command upload-customers exits with status 0 only if the local
\* file was there, the upload returned True and the verification found the
\* object under 'customers/<base name>'; for a missing file no upload is
\* attempted; the verification is made only after a successful upload; a
\* failed upload, a failed verification and any exception end in a non-zero
\* status.
C30_UploadCommandExitStatus ==
    /\ cli.exit_code = Some(0) =>
          /\ cli.exists = Some(TRUE)
          /\ s3.outer = Some(TRUE)
          /\ cli.verify # None
          /\ Val(cli.verify).outcome = Found
          /\ SubSeq(Val(cli.verify).key, 1, Len(CUSTOMERS_PREFIX)) = CUSTOMERS_PREFIX
          /\ IsBaseName(SubSeq(Val(cli.verify).key, Len(CUSTOMERS_PREFIX) + 1,
                               Len(Val(cli.verify).key)),
                        Val(cli.path))
    /\ cli.exists = Some(FALSE) => (s3 = NoUpload /\ cli.verify = None)
    /\ cli.verify # None => s3.outer = Some(TRUE)
    /\ cli.pc = "exited" =>
          /\ cli.exit_code \in {Some(0), Some(1)}
          /\ (\/ s3.outer # Some(TRUE)
              \/ cli.verify = None
              \/ Val(cli.verify).outcome # Found) => cli.exit_code = Some(1)

\* C30 witness: the command exited with status 0 for a file in a directory,
\* after an upload that succeeded on a later attempt and a verification that
\* found the object.
C30_Witness ==
    /\ cli.pc = "exited"
    /\ cli.exit_code = Some(0)
    /\ s3.attempt > 1
    /\ Len(PathName(Val(cli.path))) < Len(Val(cli.path))
    /\ Val(cli.verify).outcome = Found

====
